---- MODULE Spec2Model ----
(***************************************************************************)
(* State/query orchestration of the scores table                           *)
(* (web/src/components/table/use-cases/scores.tsx).                        *)
(*                                                                         *)
(* Optional JavaScript values are sequences of length at most one:         *)
(* << >> is undefined/null, <<v>> is the value v.  Cell values of a row    *)
(* are records [t, s, n] where t is the JavaScript type tag.               *)
(***************************************************************************)
EXTENDS Integers, Sequences, FiniteSets, TLC

VARIABLES
  projectId,        \* prop projectId
  userId,           \* prop userId?: << >> when not passed, <<s>> when passed
  paginationState,  \* useQueryParams: [pageIndex, pageSize]
  userFilterState,  \* useQueryFilterState: sequence of filter conditions
  orderByState,     \* useOrderByState: << >> (null) or <<[column, order]>>
  scores,           \* result of api.scores.all.useQuery for the current input
  superseded,       \* number of superseded record fetches still outstanding
  addressEmpty,     \* TRUE while the address holds no fragment of this view
  location,         \* <<address>> the view was loaded from, until the first
                    \* controller set; << >> once a set has been written
                    \* through and the address is the encoding of the state
  omittedFilter,    \* prop omittedFilter: sequence of column names
  filterOptions,    \* result of api.scores.filterOptions.useQuery
  columnVisibility  \* useColumnVisibility: column id -> visible

vars == << projectId, userId, paginationState, userFilterState, orderByState,
           scores, superseded, addressEmpty, location, omittedFilter,
           filterOptions, columnVisibility >>

(***************************************************************************)
(* Bounds of the model.                                                    *)
(***************************************************************************)
MaxPageIndex == 1
MaxTotal == 2
MaxFilters == 1
MaxRows == 1
MaxInflight == 2
MaxCellValue == 3

(***************************************************************************)
(* Program constants.                                                      *)
(***************************************************************************)
DefaultPageIndex == 0
DefaultPageSize == 50
\* Faulty variant: the default sort ascending.
DefaultOrderByAscending == [column |-> "timestamp", order |-> "ASC"]

DefaultOrderBy == [column |-> "timestamp", order |-> "DESC"]

ProjectIds == {"p1"}
UserIds == {<< >>, <<"">>, <<"u1">>}
PageSizes == {2, 25, DefaultPageSize}
PageIndexes == 0..MaxPageIndex

\* Filter conditions the toolbar can produce.
UserConditions ==
  { [column |-> "Name", type |-> "string", operator |-> "=", value |-> "accuracy"],
    [column |-> "User ID", type |-> "string", operator |-> "=", value |-> "u1"] }

\* Columns with enableSorting: true.
SortableColumns ==
  {"traceId", "observationId", "traceName", "timestamp", "name", "value", "userId"}

OrderBys ==
  {<< >>, <<DefaultOrderBy>>, <<[column |-> "name", order |-> "ASC"]>>}

\* JavaScript truthiness of an optional string.
Truthy(opt) == opt # << >> /\ opt[1] # ""

(***************************************************************************)
(* filterState: the user conditions, followed by the pinned "User ID"      *)
(* condition when userId is truthy.                                        *)
(***************************************************************************)
PinnedCondition(uid) ==
  [column |-> "User ID", type |-> "string", operator |-> "=", value |-> uid]

FilterState(userFilters, uid) ==
  IF Truthy(uid)
    THEN userFilters \o << PinnedCondition(uid[1]) >>
    ELSE userFilters

filterState == FilterState(userFilterState, userId)

(***************************************************************************)
(* The input of api.scores.all.useQuery.                                   *)
(***************************************************************************)
\* Faulty variants of the query input: userId passed as a field of its
\* own, limit taken from pageIndex, orderBy left out.
ComposedRequestWithUserId(pagination, filter, orderBy, project) ==
  [ page      |-> pagination.pageIndex,
    limit     |-> pagination.pageSize,
    projectId |-> project,
    userId    |-> userId,
    filter    |-> filter,
    orderBy   |-> orderBy ]

ComposedRequestLimitFromIndex(pagination, filter, orderBy, project) ==
  [ page      |-> pagination.pageIndex,
    limit     |-> pagination.pageIndex,
    projectId |-> project,
    filter    |-> filter,
    orderBy   |-> orderBy ]

ComposedRequestNoOrderBy(pagination, filter, orderBy, project) ==
  [ page      |-> pagination.pageIndex,
    limit     |-> pagination.pageSize,
    projectId |-> project,
    filter    |-> filter,
    orderBy   |-> << >> ]

\* Faulty variant: the default sort key is sent in front of the user's.
ComposedRequestDefaultSortFirst(pagination, filter, orderBy, project) ==
  [ page      |-> pagination.pageIndex,
    limit     |-> pagination.pageSize,
    projectId |-> project,
    filter    |-> filter,
    orderBy   |-> << [column |-> "timestamp", order |-> "DESC"] >> \o orderBy ]

\* Faulty variant: the state of the filter option fetch is part of the input.
ComposedRequestWithOptions(pagination, filter, orderBy, project) ==
  [ page      |-> pagination.pageIndex,
    limit     |-> pagination.pageSize,
    projectId |-> project,
    filter    |-> filter,
    orderBy   |-> orderBy,
    options   |-> filterOptions.status ]

ComposedRequest(pagination, filter, orderBy, project) ==
  [ page      |-> pagination.pageIndex,
    limit     |-> pagination.pageSize,
    projectId |-> project,
    filter    |-> filter,
    orderBy   |-> orderBy ]

Request ==
  ComposedRequest(paginationState, filterState, orderByState, projectId)

(***************************************************************************)
(* Cell values and the score records the record source returns.            *)
(* Numbers are fixed-point with Scale units per 1, so that 3 is 3 * Scale  *)
(* and 3.14159 is 314159.                                                  *)
(***************************************************************************)
Scale == 100000

Str(s) == [t |-> "string", s |-> s, n |-> 0]
Num(n) == [t |-> "number", s |-> "", n |-> n]
Undefined == [t |-> "undefined", s |-> "", n |-> 0]
Null == [t |-> "null", s |-> "", n |-> 0]

ScoreFull ==
  [ id |-> Str("s1"), timestamp |-> Str("2024-01-01T00:00:00Z"),
    name |-> Str("accuracy"), value |-> Num(3 * Scale), comment |-> Str("ok"),
    observationId |-> Str("o1"), traceId |-> Str("t1"),
    traceName |-> Str("chat"), userId |-> Str("u1") ]

\* Scores as the record source can return them, in the order it returns
\* them: nullable columns null.  The last one lacks the fields value and
\* traceId, which the row type declares as always present.
ScoreSamples ==
  << ScoreFull,
     [ScoreFull EXCEPT !.id = Str("s2"), !.value = Num(314159),
                       !.comment = Null, !.observationId = Null,
                       !.userId = Null],
     [ScoreFull EXCEPT !.id = Str("s3"), !.traceName = Null],
     [ScoreFull EXCEPT !.id = Str("s4"), !.value = Undefined,
                       !.traceId = Undefined] >>

\* The pages of at most n scores: each score at most once, in order.
RECURSIVE Pages(_, _)
Pages(from, n) ==
  IF n = 0 \/ from > Len(ScoreSamples) THEN { << >> }
  ELSE Pages(from + 1, n)
         \cup { << ScoreSamples[from] >> \o rest : rest \in Pages(from + 1, n - 1) }

Responses ==
  { [totalCount |-> c, scores |-> rows] :
      c \in 0..MaxTotal, rows \in Pages(1, MaxRows) }

ErrorMessages == {"Internal server error"}

(***************************************************************************)
(* The address codec.  The address holds one fragment per key; a fragment  *)
(* is << >> when the key is absent and <<text>> otherwise.  pageIndex and  *)
(* pageSize are read with withDefault(NumberParam, d): the text of a       *)
(* number fragment is a string.  The text of a filter or an orderBy        *)
(* fragment is a sequence of characters, where a run of characters that    *)
(* holds no delimiter is written as one string.                            *)
(***************************************************************************)
EmptyAddress ==
  [pageIndex |-> << >>, pageSize |-> << >>, filter |-> << >>, orderBy |-> << >>]

\* Stands for the number NaN; no arithmetic is done on it.
NaN == -1000000

\* The numbers whose decimal text the model recognises.
NumberDomain == (-1)..DefaultPageSize

\* NumberParam.decode: undefined for an absent key, null for an empty
\* text, otherwise +text, which is NaN for a text that is not a number.
DecodeNumber(fragment) ==
  IF fragment = << >> \/ fragment[1] = "" THEN << >>
  ELSE IF \E n \in NumberDomain : ToString(n) = fragment[1]
    THEN << CHOOSE n \in NumberDomain : ToString(n) = fragment[1] >>
    ELSE << NaN >>

\* NumberParam.encode: String(n).
EncodeNumber(n) == IF n = NaN THEN << "NaN" >> ELSE << ToString(n) >>

\* withDefault: the default replaces undefined and null only.
WithDefault(decoded, default) ==
  IF decoded = << >> THEN default ELSE decoded[1]

\* Faulty variant: each field is read from the key of the other.
DecodePaginationSwapped(address) ==
  [ pageIndex |-> WithDefault(DecodeNumber(address.pageSize), DefaultPageIndex),
    pageSize  |-> WithDefault(DecodeNumber(address.pageIndex), DefaultPageSize) ]

DecodePagination(address) ==
  [ pageIndex |-> WithDefault(DecodeNumber(address.pageIndex), DefaultPageIndex),
    pageSize  |-> WithDefault(DecodeNumber(address.pageSize), DefaultPageSize) ]

EncodePagination(pagination) ==
  [ pageIndex |-> EncodeNumber(pagination.pageIndex),
    pageSize  |-> EncodeNumber(pagination.pageSize) ]

\* The characters of the strings that hold a delimiter.
Chars(str) ==
  CASE str = "a;b" -> << "a", ";", "b" >>
    [] str = "x,y" -> << "x", ",", "y" >>
    [] OTHER -> << str >>

CompositeStrings == {"a;b", "x,y"}

\* The string made of the given characters; "" when the model has none.
Join(chars) ==
  IF Len(chars) = 1 THEN chars[1]
  ELSE IF \E str \in CompositeStrings : Chars(str) = chars
    THEN CHOOSE str \in CompositeStrings : Chars(str) = chars
    ELSE ""

EscapeChar(c) ==
  CASE c = ";" -> "%3B"
    [] c = "," -> "%2C"
    [] OTHER -> c

UnescapeChar(c) ==
  CASE c = "%3B" -> ";"
    [] c = "%2C" -> ","
    [] OTHER -> c

Escape(chars) == [i \in 1..Len(chars) |-> EscapeChar(chars[i])]

Unescape(chars) == [i \in 1..Len(chars) |-> UnescapeChar(chars[i])]

\* The parts of text between the occurrences of the delimiter sep.
RECURSIVE Split(_, _)
Split(text, sep) ==
  IF text = << >> THEN << << >> >>
  ELSE LET rest == Split(Tail(text), sep)
       IN  IF Head(text) = sep
             THEN << << >> >> \o rest
             ELSE << << Head(text) >> \o Head(rest) >> \o Tail(rest)

FilterTypes == {"string", "number", "datetime", "stringOptions"}
FilterOperators == {"=", ">", "<", "contains", "any of"}

EncodeCondition(c) ==
  << c.column, ";", c.type, ";", c.operator, ";" >> \o Escape(Chars(c.value))

RECURSIVE EncodeFilter(_)
EncodeFilter(filters) ==
  IF filters = << >> THEN << >>
  ELSE IF Len(filters) = 1 THEN EncodeCondition(filters[1])
  ELSE EncodeCondition(filters[1]) \o << "," >> \o EncodeFilter(Tail(filters))

\* << >> when the text is not a condition.
DecodeCondition(text) ==
  LET parts == Split(text, ";")
  IN  IF /\ Len(parts) = 4
         /\ Len(parts[1]) = 1 /\ Len(parts[2]) = 1 /\ Len(parts[3]) = 1
         /\ Len(parts[4]) > 0
         /\ parts[2][1] \in FilterTypes
         /\ parts[3][1] \in FilterOperators
        THEN << [ column   |-> parts[1][1],
                  type     |-> parts[2][1],
                  operator |-> parts[3][1],
                  value    |-> Join(Unescape(parts[4])) ] >>
        ELSE << >>

\* useQueryFilterState([], "scores"): the default is the empty sequence.
DecodeFilter(fragment) ==
  IF fragment = << >> \/ fragment[1] = << >> THEN << >>
  ELSE LET texts == Split(fragment[1], ",")
           conditions == [i \in 1..Len(texts) |-> DecodeCondition(texts[i])]
       IN  IF \A i \in 1..Len(texts) : conditions[i] # << >>
             THEN [i \in 1..Len(texts) |-> conditions[i][1]]
             ELSE << >>

SortOrders == {"ASC", "DESC"}

EncodeOrderBy(orderBy) ==
  IF orderBy = << >> THEN << "none" >>
  ELSE << orderBy[1].column, ".", orderBy[1].order >>

\* useOrderByState(default): the default when the text gives no value.
DecodeOrderBy(fragment, default) ==
  IF fragment = << >> THEN << default >>
  ELSE IF fragment[1] = << "none" >> THEN << >>
  ELSE IF /\ Len(fragment[1]) = 3
          /\ fragment[1][2] = "."
          /\ fragment[1][3] \in SortOrders
    THEN << [column |-> fragment[1][1], order |-> fragment[1][3]] >>
    ELSE << default >>

\* The address after the state has been written through.
EncodeState(pagination, userFilters, orderBy) ==
  [ pageIndex |-> EncodePagination(pagination).pageIndex,
    pageSize  |-> EncodePagination(pagination).pageSize,
    filter    |-> << EncodeFilter(userFilters) >>,
    orderBy   |-> << EncodeOrderBy(orderBy) >> ]

(***************************************************************************)
(* The column schema: accessorKey, header and the flags of each column.    *)
(***************************************************************************)
Column(key, header, hiding, sorting) ==
  [accessorKey |-> key, header |-> header,
   enableHiding |-> hiding, enableSorting |-> sorting]

columns ==
  << Column("traceId", "Trace ID", FALSE, TRUE),
     Column("observationId", "Observation ID", FALSE, TRUE),
     Column("traceName", "Trace Name", TRUE, TRUE),
     Column("timestamp", "Timestamp", TRUE, TRUE),
     Column("name", "Name", TRUE, TRUE),
     Column("value", "Value", TRUE, TRUE),
     Column("userId", "User ID", TRUE, TRUE),
     Column("comment", "Comment", TRUE, FALSE) >>

ColumnIds(schema) == { schema[i].accessorKey : i \in 1..Len(schema) }

(***************************************************************************)
(* The filterable column descriptors and the filter option fetch.          *)
(***************************************************************************)
Descriptor(name, type, dynamic) ==
  [name |-> name, type |-> type, dynamic |-> dynamic, options |-> << >>]

\* The descriptor of "Name" takes its options from the fetched metadata.
scoresTableCols ==
  << Descriptor("Timestamp", "datetime", FALSE),
     Descriptor("Name", "stringOptions", TRUE),
     Descriptor("Value", "number", FALSE),
     Descriptor("User ID", "string", FALSE) >>

\* The metadata the filter option source can return.
ScoreOptions == { [name |-> << "accuracy" >>], [name |-> << >>] }

\* The descriptors that depend on the metadata are left out until it is
\* there.
scoresTableColsWithOptions(options) ==
  IF options = << >>
    THEN SelectSeq(scoresTableCols, LAMBDA c : ~c.dynamic)
    ELSE [i \in 1..Len(scoresTableCols) |->
            IF scoresTableCols[i].dynamic
              THEN [scoresTableCols[i] EXCEPT !.options = options[1].name]
              ELSE scoresTableCols[i]]

Includes(list, x) == \E i \in 1..Len(list) : list[i] = x

\* Faulty variant: only the first name of the list is taken out.
transformFilterOptionsFirstOnly(omitted, options) ==
  SelectSeq(scoresTableColsWithOptions(options),
            LAMBDA c : ~(omitted # << >> /\ omitted[1] = c.name))

transformFilterOptions(omitted, options) ==
  SelectSeq(scoresTableColsWithOptions(options),
            LAMBDA c : ~Includes(omitted, c.name))

\* filterColumnDefinition of DataTableToolbar.
FilterColumnDefinition ==
  transformFilterOptions(omittedFilter, filterOptions.data)

\* columns of DataTableToolbar and of DataTable.
DisplayColumns(omitted) == columns

OptionsLoading == [status |-> "loading", data |-> << >>]

\* The exclusion lists a caller passes; the default is the empty list.
OmittedFilters ==
  { << >>, << "User ID" >>, << "Value", "Timestamp" >>, << "Trace ID" >> }

(***************************************************************************)
(* The column visibility hook: a map persisted under its own key, outside  *)
(* the address, and reconciled with the schema when it is read.            *)
(***************************************************************************)
NoMap == [id \in {} |-> TRUE]

\* Maps found under the key: none, one written for the current schema, one
\* written for an older schema.
PersistedMaps ==
  { NoMap,
    [id \in ColumnIds(columns) |-> id # "comment"],
    [id \in {"traceName", "value", "source"} |-> id # "value"] }

DefaultVisible == TRUE

\* Faulty variant: the persisted map is taken as it is.
ReconcileKeepAll(persisted, schema) == persisted

Reconcile(persisted, schema) ==
  [id \in ColumnIds(schema) |->
     IF id \in DOMAIN persisted THEN persisted[id] ELSE DefaultVisible]

(***************************************************************************)
(* The record query hook.  One result slot for the input most recently     *)
(* passed; every change of the input issues a new fetch and puts the slot  *)
(* into loading.  The fetch of the slot is outstanding while the slot is   *)
(* loading; a fetch for an earlier input is superseded, is not cancelled,  *)
(* and its response is discarded when it arrives.                          *)
(***************************************************************************)
Loading(req) ==
  [status |-> "loading", req |-> req, data |-> << >>, error |-> << >>]

Outstanding == superseded + (IF scores.status = "loading" THEN 1 ELSE 0)

CanIssue == Outstanding < MaxInflight

UseQuery(input) ==
  IF input = scores.req
    THEN UNCHANGED << scores, superseded >>
    ELSE /\ CanIssue
         /\ scores' = Loading(input)
         /\ superseded' = Outstanding

\* Re-render after a state change: the hooks are read again and the
\* composed input is handed to the record query.
Render(pagination, userFilters, orderBy) ==
  UseQuery(ComposedRequest(pagination, FilterState(userFilters, userId),
                           orderBy, projectId))

Init ==
  /\ projectId \in ProjectIds
  /\ userId \in UserIds
  /\ paginationState =
       [pageIndex |-> DefaultPageIndex, pageSize |-> DefaultPageSize]
  /\ userFilterState = << >>
  /\ orderByState = << DefaultOrderBy >>
  /\ scores = Loading(
       ComposedRequest(paginationState, FilterState(userFilterState, userId),
                       orderByState, projectId))
  /\ superseded = 0
  /\ addressEmpty = TRUE
  /\ location = << EmptyAddress >>
  /\ omittedFilter = << >>
  /\ filterOptions = OptionsLoading
  /\ columnVisibility = Reconcile(NoMap, columns)

(***************************************************************************)
(* Pagination controller.                                                  *)
(***************************************************************************)
NoPartial == [pageIndex |-> << >>, pageSize |-> << >>]

PaginationPartials ==
  { [pageIndex |-> i, pageSize |-> s] :
      i \in {<< >>} \cup { <<x>> : x \in PageIndexes },
      s \in {<< >>} \cup { <<x>> : x \in PageSizes } } \ {NoPartial}

MergePagination(old, partial) ==
  [ pageIndex |-> IF partial.pageIndex # << >>
                    THEN partial.pageIndex[1] ELSE old.pageIndex,
    pageSize  |-> IF partial.pageSize # << >>
                    THEN partial.pageSize[1] ELSE old.pageSize ]

SetPaginationState(partial) ==
  /\ paginationState' = MergePagination(paginationState, partial)
  /\ addressEmpty' = FALSE
  /\ Render(paginationState', userFilterState, orderByState)
  /\ location' = << >>
  /\ UNCHANGED << projectId, userId, userFilterState, orderByState,
                  omittedFilter, filterOptions, columnVisibility >>

(***************************************************************************)
(* Filter controller, driven by the toolbar.                               *)
(***************************************************************************)
\* Faulty variant: the toolbar is handed the effective filter sequence.
ToolbarEffectiveFilterState == FilterState(userFilterState, userId)

ToolbarFilterState == userFilterState

RemoveAt(q, i) == SubSeq(q, 1, i - 1) \o SubSeq(q, i + 1, Len(q))

SetUserFilterState(new) ==
  /\ userFilterState' = new
  /\ addressEmpty' = FALSE
  /\ Render(paginationState, userFilterState', orderByState)
  /\ location' = << >>
  /\ UNCHANGED << projectId, userId, paginationState, orderByState,
                  omittedFilter, filterOptions, columnVisibility >>

AddFilter(c) ==
  /\ Len(ToolbarFilterState) < MaxFilters
  /\ SetUserFilterState(Append(ToolbarFilterState, c))

RemoveFilter(i) ==
  /\ i \in 1..Len(ToolbarFilterState)
  /\ SetUserFilterState(RemoveAt(ToolbarFilterState, i))

ClearFilters == SetUserFilterState(<< >>)

(***************************************************************************)
(* Order-by controller.                                                    *)
(***************************************************************************)
SetOrderByState(o) ==
  /\ orderByState' = o
  /\ addressEmpty' = FALSE
  /\ Render(paginationState, userFilterState, orderByState')
  /\ location' = << >>
  /\ UNCHANGED << projectId, userId, paginationState, userFilterState,
                  omittedFilter, filterOptions, columnVisibility >>

(***************************************************************************)
(* Arrival of a record fetch response: of the latest fetch (latest = TRUE) *)
(* or of a superseded one.                                                 *)
(***************************************************************************)
Arrives(latest) ==
  IF latest
    THEN scores.status = "loading" /\ UNCHANGED superseded
    ELSE superseded > 0 /\ superseded' = superseded - 1

\* Faulty variant: the response of a superseded fetch is stored too.
SettleAnyResponse(latest, result) ==
  /\ Arrives(latest)
  /\ scores' = [scores EXCEPT !.status = result.status,
                              !.data = result.data,
                              !.error = result.error]
  /\ UNCHANGED << projectId, userId, paginationState, userFilterState,
                  orderByState, addressEmpty, location, omittedFilter,
                  filterOptions, columnVisibility >>

Settle(latest, result) ==
  /\ Arrives(latest)
  /\ scores' = IF latest THEN [scores EXCEPT !.status = result.status,
                                             !.data = result.data,
                                             !.error = result.error]
               ELSE scores
  /\ UNCHANGED << projectId, userId, paginationState, userFilterState,
                  orderByState, addressEmpty, location, omittedFilter,
                  filterOptions, columnVisibility >>

\* fromLatest records whether the response answered the latest fetch.
FetchSucceeds(latest, response) ==
  Settle(latest, [status |-> "success",
                  data |-> << [totalCount |-> response.totalCount,
                               scores |-> response.scores,
                               fromLatest |-> latest] >>,
                  error |-> << >>])

FetchFails(latest, message) ==
  Settle(latest, [status |-> "error", data |-> << >>,
                  error |-> << [message |-> message] >>])

Next ==
  \/ \E partial \in PaginationPartials : SetPaginationState(partial)
  \/ \E c \in UserConditions : AddFilter(c)
  \/ \E i \in 1..MaxFilters : RemoveFilter(i)
  \/ ClearFilters
  \/ \E o \in OrderBys : SetOrderByState(o)
  \/ \E latest \in BOOLEAN, response \in Responses :
       FetchSucceeds(latest, response)
  \/ \E latest \in BOOLEAN, message \in ErrorMessages :
       FetchFails(latest, message)

Spec == Init /\ [][Next]_vars

(***************************************************************************)
(* The view loaded from an address: every controller reads its slice from  *)
(* the fragment of its key.  Addresses differ from the empty address in    *)
(* one key, or hold a value for every key.                                 *)
(***************************************************************************)
PageIndexFragments == { << "1" >>, << "-1" >>, << "abc" >>, << "" >> }
PageSizeFragments == { << "25" >>, << "0" >>, << "abc" >> }

RichConditions ==
  UserConditions \cup
    { [column |-> "Name", type |-> "string", operator |-> "=", value |-> "a;b"],
      [column |-> "User ID", type |-> "string", operator |-> "=", value |-> "x,y"] }

FilterFragments ==
  { << EncodeFilter(<< c >>) >> : c \in RichConditions }
    \cup { << << "Name", ";", "string" >> >>, << << "Name", ";", "string", ";", "=", ";", "a", ";", "b" >> >> }

OrderByFragments ==
  { << EncodeOrderBy(o) >> : o \in OrderBys }
    \cup { << << "timestamp" >> >>, << << "name", ".", "UP" >> >> }

Addresses ==
  {EmptyAddress}
    \cup { [EmptyAddress EXCEPT !.pageIndex = f] : f \in PageIndexFragments }
    \cup { [EmptyAddress EXCEPT !.pageSize = f] : f \in PageSizeFragments }
    \cup { [EmptyAddress EXCEPT !.filter = f] : f \in FilterFragments }
    \cup { [EmptyAddress EXCEPT !.orderBy = f] : f \in OrderByFragments }
    \cup { EncodeState([pageIndex |-> 1, pageSize |-> 25],
                       << CHOOSE c \in UserConditions : c.column = "Name" >>,
                       << [column |-> "name", order |-> "ASC"] >>) }

InitAddress ==
  \E address \in Addresses :
    /\ projectId \in ProjectIds
    /\ userId \in UserIds
    /\ location = << address >>
    /\ paginationState = DecodePagination(address)
    /\ userFilterState = DecodeFilter(address.filter)
    /\ orderByState = DecodeOrderBy(address.orderBy, DefaultOrderBy)
    /\ scores = Loading(
         ComposedRequest(paginationState, FilterState(userFilterState, userId),
                         orderByState, projectId))
    /\ superseded = 0
    /\ addressEmpty = (address = EmptyAddress)
    /\ omittedFilter = << >>
    /\ filterOptions = OptionsLoading
    /\ columnVisibility = Reconcile(NoMap, columns)

\* The responses without rows: the rows play no part in the address.
CountResponses == { response \in Responses : response.scores = << >> }

NextAddress ==
  \/ \E partial \in PaginationPartials : SetPaginationState(partial)
  \/ \E c \in UserConditions : AddFilter(c)
  \/ \E i \in 1..MaxFilters : RemoveFilter(i)
  \/ ClearFilters
  \/ \E o \in OrderBys : SetOrderByState(o)
  \/ \E latest \in BOOLEAN, response \in CountResponses :
       FetchSucceeds(latest, response)
  \/ \E latest \in BOOLEAN, message \in ErrorMessages :
       FetchFails(latest, message)

SpecAddress == InitAddress /\ [][NextAddress]_vars

(***************************************************************************)
(* The view with its toolbar: the caller's exclusion list, the filter      *)
(* option fetch and the column visibility map, next to the record fetch.   *)
(* Every step re-renders the component.                                    *)
(***************************************************************************)
SettleOptions(result) ==
  /\ filterOptions.status = "loading"
  /\ filterOptions' = result
  /\ Render(paginationState, userFilterState, orderByState)
  /\ UNCHANGED << projectId, userId, paginationState, userFilterState,
                  orderByState, addressEmpty, location, omittedFilter,
                  columnVisibility >>

FilterOptionsSucceeds(options) ==
  SettleOptions([status |-> "success", data |-> << options >>])

FilterOptionsFails == SettleOptions([status |-> "error", data |-> << >>])

\* The columns whose visibility the user switches.
ToggledColumns == {"value", "comment"}

SetColumnVisibility(map) ==
  /\ columnVisibility' = map
  /\ Render(paginationState, userFilterState, orderByState)
  /\ UNCHANGED << projectId, userId, paginationState, userFilterState,
                  orderByState, addressEmpty, location, omittedFilter,
                  filterOptions >>

ToggleColumn(column) ==
  SetColumnVisibility([columnVisibility EXCEPT ![column] = ~@])

InitView ==
  /\ projectId \in ProjectIds
  /\ userId \in UserIds
  /\ omittedFilter \in OmittedFilters
  /\ filterOptions = OptionsLoading
  /\ \E persisted \in PersistedMaps :
       columnVisibility = Reconcile(persisted, columns)
  /\ paginationState =
       [pageIndex |-> DefaultPageIndex, pageSize |-> DefaultPageSize]
  /\ userFilterState = << >>
  /\ orderByState = << DefaultOrderBy >>
  /\ scores = Loading(
       ComposedRequest(paginationState, FilterState(userFilterState, userId),
                       orderByState, projectId))
  /\ superseded = 0
  /\ addressEmpty = TRUE
  /\ location = << EmptyAddress >>

NextView ==
  \/ \E options \in ScoreOptions : FilterOptionsSucceeds(options)
  \/ FilterOptionsFails
  \/ \E column \in ToggledColumns : ToggleColumn(column)
  \/ \E c \in UserConditions : AddFilter(c)
  \/ ClearFilters
  \/ \E o \in OrderBys : SetOrderByState(o)
  \/ \E latest \in BOOLEAN, response \in CountResponses :
       FetchSucceeds(latest, response)
  \/ \E latest \in BOOLEAN, message \in ErrorMessages :
       FetchFails(latest, message)

SpecView == InitView /\ [][NextView]_vars

(***************************************************************************)
(* The value column over a range of score values: the record source        *)
(* answers with one score of any value of CellValues.                      *)
(***************************************************************************)
Fractions ==
  {0, 4, 5, 10000, 14159, 14164, 14165, 50000, 99994, 99995, 99999}

CellValues ==
  { i * Scale + f : i \in (-MaxCellValue)..MaxCellValue, f \in Fractions }

ScoreOfValue(v) == [ScoreFull EXCEPT !.value = Num(v)]

NextCells ==
  \/ \E v \in CellValues :
       FetchSucceeds(TRUE, [totalCount |-> 1, scores |-> << ScoreOfValue(v) >>])
  \/ \E o \in OrderBys : SetOrderByState(o)

SpecCells == Init /\ [][NextCells]_vars

(***************************************************************************)
(* What the component derives from the record query on each render.        *)
(***************************************************************************)
\* scores.data?.totalCount ?? 0
totalCount == IF scores.data # << >> THEN scores.data[1].totalCount ELSE 0

\* Math.ceil(a / b) for a >= 0 and b > 0.
\* Faulty variant: Math.floor.
Floor(a, b) == a \div b

Ceil(a, b) == IF a % b = 0 THEN a \div b ELSE (a \div b) + 1

\* Stands for the number Infinity; no arithmetic is done on it.
Infinity == 1000000

\* Math.ceil(totalCount / paginationState.pageSize): NaN for a pageSize
\* that is NaN and for 0 / 0, Infinity for a division of a positive total
\* by 0, and the ceiling of a quotient that is not positive for a negative
\* pageSize.
pageCount ==
  LET pageSize == paginationState.pageSize
  IN  CASE pageSize = NaN -> NaN
        [] pageSize = 0 -> IF totalCount = 0 THEN NaN ELSE Infinity
        [] pageSize < 0 /\ pageSize # NaN -> -(totalCount \div (-pageSize))
        [] OTHER -> Ceil(totalCount, pageSize)

\* Date.prototype.toLocaleString, en-US.
LocaleString(ts) ==
  CASE ts = "2024-01-01T00:00:00Z" -> "1/1/2024, 12:00:00 AM"
    [] OTHER -> "Invalid Date"

\* x ?? undefined
OrUndefined(x) == IF x.t \in {"null", "undefined"} THEN Undefined ELSE x

convertToTableRow(score) ==
  [ id            |-> score.id,
    timestamp     |-> Str(LocaleString(score.timestamp.s)),
    name          |-> score.name,
    value         |-> score.value,
    comment       |-> OrUndefined(score.comment),
    observationId |-> OrUndefined(score.observationId),
    traceId       |-> score.traceId,
    traceName     |-> score.traceName,
    userId        |-> OrUndefined(score.userId) ]

MapRows(rows) == [i \in 1..Len(rows) |-> convertToTableRow(rows[i])]

isLoading == scores.status = "loading"
isError == scores.status = "error"

\* The data prop of DataTable.  threw marks a render that raises because
\* scores.error or scores.data is read while undefined.
TableData(loading, error, errorMessage, rows, threw) ==
  [isLoading |-> loading, isError |-> error, error |-> errorMessage,
   data |-> rows, threw |-> threw]

\* Faulty variant: the isError branch is missing.
DataTableDataNoErrorBranch ==
  IF isLoading
    THEN TableData(TRUE, FALSE, << >>, << >>, FALSE)
  ELSE IF scores.data # << >>
    THEN TableData(FALSE, FALSE, << >>, << MapRows(scores.data[1].scores) >>, FALSE)
    ELSE TableData(FALSE, FALSE, << >>, << >>, TRUE)

DataTableData ==
  IF isLoading
    THEN TableData(TRUE, FALSE, << >>, << >>, FALSE)
  ELSE IF isError
    THEN IF scores.error # << >>
           THEN TableData(FALSE, TRUE, << scores.error[1].message >>, << >>, FALSE)
           ELSE TableData(FALSE, TRUE, << >>, << >>, TRUE)
  ELSE IF scores.data # << >>
    THEN TableData(FALSE, FALSE, << >>, << MapRows(scores.data[1].scores) >>, FALSE)
    ELSE TableData(FALSE, FALSE, << >>, << >>, TRUE)

(***************************************************************************)
(* Column cells.  A cell is a link (TableLink with path and value), the    *)
(* value itself, nothing (undefined or null returned), or a raised error.  *)
(***************************************************************************)
Link(path, label) == [kind |-> "link", path |-> path, label |-> label]
Value(v) == [kind |-> "value", path |-> << >>, label |-> v]
Absent == [kind |-> "absent", path |-> << >>, label |-> Undefined]
Throws == [kind |-> "throws", path |-> << >>, label |-> Undefined]

\* `${v}` in a template literal.
TemplateString(v) ==
  CASE v.t = "string" -> v.s
    [] v.t = "undefined" -> "undefined"
    [] v.t = "null" -> "null"
    [] OTHER -> "number"

\* encodeURIComponent on the strings that occur.
EncodeURIComponent(str) ==
  CASE str = "name;stringOptions;;any of;" -> "name%3BstringOptions%3B%3Bany%20of%3B"
    [] OTHER -> str

\* JavaScript truthiness of a cell value.
TruthyValue(v) ==
  \/ v.t = "string" /\ v.s # ""
  \/ v.t = "number" /\ v.n # 0

\* Faulty variant: the digits after the fourth decimal are cut off.
ToFixed4Truncating(n) == n \div (Scale \div 10000)

\* Number.prototype.toFixed(4) of n >= 0: the value rounded to 4 decimals,
\* in units of 1/10000.  A value of the model has 5 decimals; one that ends
\* in 5 lies halfway, and is rounded up here.
ToFixed4(n) == (n + (Scale \div 20000)) \div (Scale \div 10000)

traceIdCell(row, project) ==
  LET value == row.traceId
  IN  IF value.t = "string"
        THEN Link(<< "/project/", project, "/traces/", value.s >>, value)
        ELSE Absent

\* Faulty variant: the type of traceId is not tested.
observationIdCellAlone(row, project) ==
  LET observationId == row.observationId
      traceId == row.traceId
  IN  IF observationId.t = "string"
        THEN Link(<< "/project/", project, "/traces/", traceId.s,
                     "?observation=", observationId.s >>, observationId)
        ELSE Absent

observationIdCell(row, project) ==
  LET observationId == row.observationId
      traceId == row.traceId
  IN  IF observationId.t = "string" /\ traceId.t = "string"
        THEN Link(<< "/project/", project, "/traces/", traceId.s,
                     "?observation=", observationId.s >>, observationId)
        ELSE Absent

traceNameCell(row, project) ==
  LET value == row.traceName
      filter == << EncodeURIComponent("name;stringOptions;;any of;"),
                   EncodeURIComponent(TemplateString(value)) >>
  IN  Link(<< "/project/", project, "/traces?filter=" >>
             \o (IF TruthyValue(value) THEN filter ELSE << "" >>),
           value)

valueCell(row, project) ==
  LET value == row.value
  IN  CASE value.t = "number" ->
             IF value.n % Scale = 0
               THEN Value(value)
               ELSE Value([t |-> "fixed4",
                           s |-> IF value.n < 0 THEN "-" ELSE "",
                           n |-> ToFixed4(IF value.n < 0 THEN -value.n
                                                         ELSE value.n)])
        [] value.t = "null" -> Absent
        [] value.t = "undefined" -> Throws

userIdCell(row, project) ==
  LET value == row.userId
  IN  IF value.t = "string"
        THEN Link(<< "/project/", project, "/users/", value.s >>, value)
        ELSE Absent

RenderColumns == {"traceId", "observationId", "traceName", "value", "userId"}

Cell(column, row, project) ==
  CASE column = "traceId" -> traceIdCell(row, project)
    [] column = "observationId" -> observationIdCell(row, project)
    [] column = "traceName" -> traceNameCell(row, project)
    [] column = "value" -> valueCell(row, project)
    [] column = "userId" -> userIdCell(row, project)

(***************************************************************************)
(* Properties.                                                             *)
(***************************************************************************)
\* The request fields composed from the current controller state.
RequestOfState ==
  [ page    |-> paginationState.pageIndex,
    limit   |-> paginationState.pageSize,
    filter  |-> filterState,
    orderBy |-> orderByState ]

RequestFields(req) ==
  [ page |-> req.page, limit |-> req.limit, filter |-> req.filter,
    orderBy |-> req.orderBy ]

\* C1: discard-on-supersede.  Whenever rows and a total count are
\* displayed they are the response to the most recently issued fetch, and
\* that fetch was issued for the request composed from the current state;
\* the arrival of the response of a superseded fetch changes neither the
\* displayed data nor the total count.
DiscardOnSupersede ==
  /\ [](scores.data # << >> =>
          /\ scores.data[1].fromLatest
          /\ RequestFields(scores.req) = RequestOfState)
  /\ [][superseded' < superseded =>
          (DataTableData' = DataTableData /\ totalCount' = totalCount)]_vars

\* C1 witness: the later fetch has resolved and is displayed while the
\* superseded one is still outstanding.
SupersededStillOutstanding ==
  /\ scores.status = "success"
  /\ superseded > 0

\* C2: whenever a scope user id is supplied, the filter of the request is
\* the user conditions in insertion order followed by the pinned User ID
\* condition.
PinnedLastWheneverSupplied ==
  userId # << >> =>
    Request.filter = userFilterState \o << PinnedCondition(userId[1]) >>

\* The filter states the toolbar can set from the user conditions u.
Edits(u) ==
  { Append(u, c) : c \in UserConditions }
    \cup { RemoveAt(u, i) : i \in 1..Len(u) }
    \cup { << >> }

\* C3: the toolbar reads and sets the user conditions only; a set stores
\* an edit of the user conditions, never the pinned condition appended at
\* read time, and the pinned condition stays the last element of the
\* effective sequence across every set, the set to the empty sequence
\* included.
PinnedNeverWrittenBack ==
  /\ [](ToolbarFilterState = userFilterState)
  /\ [][/\ userFilterState' # userFilterState =>
             userFilterState' \in Edits(userFilterState)
        /\ Truthy(userId) =>
             filterState' = userFilterState' \o << PinnedCondition(userId[1]) >>
       ]_vars

\* C3 witness: the user filters were set to the empty sequence and the
\* effective sequence still holds the pinned condition.
ClearedButStillPinned ==
  /\ Truthy(userId)
  /\ ~addressEmpty
  /\ userFilterState = << >>
  /\ Request.filter = << PinnedCondition(userId[1]) >>

\* C4: every composed request has exactly the fields page, limit,
\* projectId, filter and orderBy; the scope user id appears in it only as
\* a condition of the filter.
UserIdOnlyAsFilter ==
  /\ DOMAIN Request = {"page", "limit", "projectId", "filter", "orderBy"}
  /\ Truthy(userId) =>
       \E i \in 1..Len(Request.filter) : Request.filter[i].value = userId[1]

\* C4 witness: a request composed for a scope user id with a user filter.
ScopedRequestWithUserFilter ==
  /\ Truthy(userId)
  /\ Len(userFilterState) > 0
  /\ scores.req.filter = filterState

\* C5: with no address fragments and no scope user id the composed request
\* is page 0, limit 50, no filter, ordered by timestamp descending.
InitialRequest ==
  (addressEmpty /\ userId = << >>) =>
    Request = [ page |-> 0, limit |-> 50, projectId |-> projectId,
                filter |-> << >>,
                orderBy |-> << [column |-> "timestamp", order |-> "DESC"] >> ]

\* C5 witness: the initial request, unscoped, has been answered.
InitialRequestAnswered ==
  /\ addressEmpty
  /\ userId = << >>
  /\ scores.status = "success"
  /\ scores.req = Request

\* C6: a pagination set that gives pageSize alone makes the composed
\* request carry the new limit and leaves its page, filter and orderBy as
\* they were; pageIndex is not reset.
PageSizeAloneKeepsPage ==
  [][\A size \in PageSizes :
       SetPaginationState([pageIndex |-> << >>, pageSize |-> << size >>]) =>
         /\ Request'.limit = size
         /\ Request'.page = Request.page
         /\ Request'.filter = Request.filter
         /\ Request'.orderBy = Request.orderBy
         /\ scores'.req = Request']_vars

\* C6 witness: page 1 is requested with the page size set to 25.
SecondPageOfTwentyFive ==
  /\ paginationState = [pageIndex |-> 1, pageSize |-> 25]
  /\ scores.req.page = 1
  /\ scores.req.limit = 25

\* C7: for totalCount >= 0 and pageSize > 0 the pageCount is the least
\* number of pages of pageSize rows that hold totalCount rows, and is 0
\* when totalCount is 0.
PageCountIsCeiling ==
  (totalCount >= 0 /\ paginationState.pageSize > 0) =>
    /\ pageCount * paginationState.pageSize >= totalCount
    /\ (pageCount - 1) * paginationState.pageSize < totalCount
    /\ totalCount = 0 => pageCount = 0

\* C7 witness: a total that the page size does not divide.
TotalNotDivisible ==
  /\ totalCount = 1
  /\ paginationState.pageSize = 2
  /\ pageCount = 1

\* C8: the table data is in exactly one of the three display states:
\* loading, error with the message of the failed fetch, or success with
\* the projected rows of the response; success only with response data
\* present and error only with an error message present.
ThreeDisplayStates ==
  LET d == DataTableData
      loading == d.isLoading /\ ~d.isError /\ d.error = << >> /\ d.data = << >>
      error   == /\ ~d.isLoading /\ d.isError /\ d.data = << >>
                 /\ scores.error # << >>
                 /\ d.error = << scores.error[1].message >>
      success == /\ ~d.isLoading /\ ~d.isError /\ d.error = << >>
                 /\ scores.data # << >>
                 /\ d.data = << MapRows(scores.data[1].scores) >>
                 /\ totalCount = scores.data[1].totalCount
  IN  /\ ~d.threw
      /\ loading \/ error \/ success
      /\ ~(loading /\ error) /\ ~(loading /\ success) /\ ~(error /\ success)
      /\ scores.status = "loading" => loading
      /\ scores.status = "error" => error
      /\ scores.status = "success" => success

\* C8 witness: the error state, carrying the message.
ErrorDisplayed ==
  /\ DataTableData.isError
  /\ DataTableData.error # << >>

\* C9: every change of the composed request puts the view into loading;
\* loading is left only by the arrival of the response of the current
\* request, with the request unchanged; and a view in success or error
\* changes only by going back to loading.
FetchCycle ==
  [][LET before == DataTableData
         after == DataTableData'
     IN  /\ RequestOfState' # RequestOfState => after.isLoading
         /\ (before.isLoading /\ ~after.isLoading) =>
              /\ RequestOfState' = RequestOfState
              /\ scores'.req = scores.req
              /\ superseded' = superseded
         /\ (~before.isLoading /\ ~after.isLoading) => after = before
    ]_vars

\* C9 witness: a changed request has been answered.
ChangedRequestAnswered ==
  /\ ~addressEmpty
  /\ scores.status \in {"success", "error"}
  /\ scores.req # [Request EXCEPT !.page = DefaultPageIndex,
                                  !.limit = DefaultPageSize,
                                  !.filter = FilterState(<< >>, userId),
                                  !.orderBy = << DefaultOrderBy >>]
  /\ RequestFields(scores.req) = RequestOfState

\* The fields a column's cell reads.
SourceFields(column) ==
  CASE column = "observationId" -> {"observationId", "traceId"}
    [] OTHER -> {column}

Missing(v) == v.t \in {"undefined", "null"}

DisplayedRows ==
  IF DataTableData.data = << >> THEN {}
  ELSE { DataTableData.data[1][i] : i \in 1..Len(DataTableData.data[1]) }

\* C10: rendering a cell never throws, and a cell whose source field, or
\* a sibling field it reads, is missing renders the absent marker.
CellsNeverThrow ==
  \A row \in DisplayedRows : \A column \in RenderColumns :
    LET cell == Cell(column, row, projectId)
    IN  /\ cell.kind # "throws"
        /\ (\E f \in SourceFields(column) : Missing(row[f])) =>
             cell.kind = "absent"

Abs(n) == IF n < 0 THEN -n ELSE n

\* C11: in the value column an integral value is rendered as the number
\* itself (3 as 3), and any other value as a text with 4 decimals that is
\* the value rounded to the nearest 1/10000 (3.14159 as 3.1416, 3.1 as
\* 3.1000).
ValueRendering ==
  \A row \in DisplayedRows :
    row.value.t = "number" =>
      LET v == row.value.n
          cell == Cell("value", row, projectId)
      IN  /\ cell.kind = "value"
          /\ IF v % Scale = 0
               THEN cell.label = Num(v)
               ELSE /\ cell.label.t = "fixed4"
                    /\ cell.label.s = (IF v < 0 THEN "-" ELSE "")
                    /\ 2 * Abs(cell.label.n * (Scale \div 10000) - Abs(v))
                         <= Scale \div 10000
          /\ v = 3 * Scale => cell.label.n = 3 * Scale
          /\ v = 314159 => cell.label.n = 31416
          /\ v = 310000 => cell.label.n = 31000

ValueRounded ==
  \E row \in DisplayedRows :
    /\ row.value = Num(3 * Scale + 14159)
    /\ Cell("value", row, projectId).label.n = 31416

IsNumberText(fragment, low) ==
  /\ fragment # << >>
  /\ \E n \in NumberDomain : n >= low /\ ToString(n) = fragment[1]

IsFilterText(fragment) ==
  /\ fragment # << >>
  /\ \E c \in RichConditions : fragment[1] = EncodeFilter(<< c >>)

IsOrderByText(fragment) ==
  /\ fragment # << >>
  /\ \E o \in OrderBys : fragment[1] = EncodeOrderBy(o)

\* C13: a view loaded from an address whose fragment for a slice is
\* absent or malformed has the default of that slice: page 0 and limit 50
\* in the request for a pageIndex or pageSize fragment that is not a
\* valid number, no user filter, the default sort.
MalformedDecodeToDefaults ==
  location # << >> =>
    LET address == location[1]
    IN  /\ ~IsNumberText(address.pageIndex, 0) => Request.page = 0
        /\ ~IsNumberText(address.pageSize, 1) => Request.limit = 50
        /\ ~IsFilterText(address.filter) => userFilterState = << >>
        /\ ~IsOrderByText(address.orderBy) =>
             orderByState = << [column |-> "timestamp", order |-> "DESC"] >>

\* C14: a view loaded from an address that gives no sort value sorts by
\* timestamp, descending; the request never carries more than one sort
\* key, and after a set of the order-by it carries the one last set.
SingleSortKey ==
  /\ [](/\ Len(Request.orderBy) <= 1
        /\ (location # << >> /\ ~IsOrderByText(location[1].orderBy)) =>
             Request.orderBy = << [column |-> "timestamp", order |-> "DESC"] >>)
  /\ [][\A o \in OrderBys : SetOrderByState(o) => Request'.orderBy = o]_vars

MalformedSortFragment ==
  /\ location # << >>
  /\ location[1].orderBy = << << "name", ".", "UP" >> >>
  /\ Request.orderBy = << DefaultOrderBy >>

SortableIds ==
  { columns[i].accessorKey : i \in { j \in 1..Len(columns) : columns[j].enableSorting } }

FilterableNames ==
  { FilterColumnDefinition[i].name : i \in 1..Len(FilterColumnDefinition) }

\* C15: in every state the column of the order-by is a sortable column of
\* the schema, and every condition of the filter sent with the request,
\* the pinned one included, names a column of the filterable descriptors
\* that remain after the exclusion list.
StateColumnsValid ==
  /\ orderByState # << >> => orderByState[1].column \in SortableIds
  /\ \A i \in 1..Len(filterState) : filterState[i].column \in FilterableNames

Position(list, x) == CHOOSE i \in 1..Len(list) : list[i] = x

\* C16: the descriptors handed to the toolbar are those of the full list
\* whose name is not in the exclusion list, in the order of the full list;
\* the columns handed to the toolbar and the table do not depend on the
\* exclusion list.
ExclusionRemovesNamedOnly ==
  LET full == scoresTableColsWithOptions(filterOptions.data)
      kept == FilterColumnDefinition
  IN  /\ \A i \in 1..Len(kept) :
           /\ ~Includes(omittedFilter, kept[i].name)
           /\ Includes(full, kept[i])
      /\ \A j \in 1..Len(full) :
           ~Includes(omittedFilter, full[j].name) => Includes(kept, full[j])
      /\ \A i, k \in 1..Len(kept) :
           i < k => Position(full, kept[i]) < Position(full, kept[k])
      /\ DisplayColumns(omittedFilter) = columns

TwoDescriptorsExcluded ==
  /\ omittedFilter = << "Value", "Timestamp" >>
  /\ filterOptions.status = "success"
  /\ Len(FilterColumnDefinition) = 2

\* C17: the visibility map read from its store has exactly the column ids
\* of the schema as keys: a stored value is kept for an id of the schema,
\* an id without a stored value is visible, a stored id that is not in the
\* schema is dropped.
VisibilityKeysAreSchemaIds ==
  LET ids == {"traceId", "observationId", "traceName", "timestamp", "name",
              "value", "userId", "comment"}
  IN  /\ DOMAIN columnVisibility = ids
      /\ \A persisted \in PersistedMaps :
           LET map == Reconcile(persisted, columns)
           IN  /\ DOMAIN map = ids
               /\ \A id \in ids :
                    map[id] = IF id \in DOMAIN persisted
                                THEN persisted[id] ELSE TRUE

StaleMapReconciled ==
  /\ ~columnVisibility["value"]
  /\ columnVisibility["comment"]
  /\ filterOptions.status = "success"

\* C19: the request is made of the pagination, the user filters, the
\* scope user id, the order-by and the project id only.  A step in which
\* the filter option fetch resolves or the column visibility changes
\* leaves the request, the record fetches and the displayed data as they
\* are.
ViewStepsLeaveRecordsAlone ==
  /\ [](Request = [ page      |-> paginationState.pageIndex,
                    limit     |-> paginationState.pageSize,
                    projectId |-> projectId,
                    filter    |-> FilterState(userFilterState, userId),
                    orderBy   |-> orderByState ])
  /\ [][(filterOptions' # filterOptions \/ columnVisibility' # columnVisibility)
          => /\ Request' = Request
             /\ scores' = scores
             /\ superseded' = superseded
             /\ DataTableData' = DataTableData]_vars

OptionsResolvedWhileLoading ==
  /\ filterOptions.status = "success"
  /\ scores.status = "loading"
  /\ superseded > 0
  /\ ~columnVisibility["comment"]

\* C18: the observationId cell is a link exactly when the observationId
\* and the traceId of the row are both strings; the link leads to the
\* observation within the trace of the project and shows the
\* observationId; otherwise the cell is empty.
ObservationLinkNeedsTrace ==
  \A row \in DisplayedRows :
    LET cell == Cell("observationId", row, projectId)
        both == row.observationId.t = "string" /\ row.traceId.t = "string"
    IN  /\ cell.kind = "link" <=> both
        /\ both =>
             /\ cell.path = << "/project/", projectId, "/traces/",
                               row.traceId.s, "?observation=",
                               row.observationId.s >>
             /\ cell.label = row.observationId
        /\ ~both => cell.kind = "absent"

ObservationWithoutTrace ==
  \E row \in DisplayedRows :
    /\ row.observationId.t = "string"
    /\ row.traceId.t # "string"
    /\ Cell("observationId", row, projectId).kind = "absent"

\* C20: while the record query has no data, totalCount and pageCount are
\* 0, so pageIndex >= pageCount; pageIndex changes only in a step that
\* sets the pagination with a pageIndex.
NoDataNoPages ==
  /\ [](scores.data = << >> =>
          /\ totalCount = 0
          /\ pageCount = 0
          /\ paginationState.pageIndex >= pageCount)
  /\ [][paginationState'.pageIndex # paginationState.pageIndex =>
          \E partial \in PaginationPartials :
            partial.pageIndex # << >> /\ SetPaginationState(partial)]_vars

====
